---- MODULE Spec2Model ----
(***************************************************************************)
(* Kitsune: user registration, password login with bearer tokens and a     *)
(* paginated user listing (FastAPI handlers over one SQL table "users").   *)
(*                                                                         *)
(* The users table is external, persistent state: the application creates  *)
(* it only if absent (main.py lifespan), so a process starts on whatever   *)
(* rows the table holds under the constraints of models/user.py.           *)
(* Every store I/O call (await db.execute / db.commit) is a suspension     *)
(* point, so a handler is one action per store call.                       *)
(*                                                                         *)
(* users  the rows of the users table, in insertion order                  *)
(* req    the account request (POST /users/, POST /login/access-token)     *)
(*        each client has in flight, with its position and its response    *)
(* lreq   the GET /users/ request in flight; handler_reads counts the      *)
(*        store reads of the handler body behind its response              *)
(***************************************************************************)
EXTENDS Integers, Sequences, FiniteSets, TLC

VARIABLES users, req, lreq

vars == <<users, req, lreq>>

(***************************************************************************)
(* Bounds of the model.                                                    *)
(***************************************************************************)
MaxUsers == 3
MaxPage == 2

(***************************************************************************)
(* Program constants.                                                      *)
(***************************************************************************)
DefaultPage == 1
DefaultSize == 50
MaxSize == 100

EmailNames == <<"a@x.com", "b@x.com", "c@x.com", "d@x.com", "e@x.com">>
Emails == {EmailNames[i] : i \in 1..MaxUsers}
Passwords == {"p", "q"}
FullNames == {"A"}
Clients == {"c1", "c2"}

(***************************************************************************)
(* The mapped columns of the users table.                                  *)
(***************************************************************************)
UserColumns == {"id", "email", "full_name", "is_active"}

Min(a, b) == IF a < b THEN a ELSE b

(***************************************************************************)
(* An Optional value is a sequence of length 0 (None) or 1.                *)
(* result.scalars().first()                                                *)
(***************************************************************************)
First(rows) == IF rows = <<>> THEN <<>> ELSE <<rows[1]>>

RECURSIVE SelectWhere(_, _, _)
SelectWhere(table, col, val) ==
    IF table = <<>> THEN <<>>
    ELSE LET rest == SelectWhere(Tail(table), col, val)
         IN IF Head(table)[col] = val THEN <<Head(table)>> \o rest ELSE rest

\* select(models.User).filter(models.User.email == email)
SelectByEmail(table, email) == SelectWhere(table, "email", email)

\* select(models.User).filter(models.User.id == id)
SelectById(table, id) == SelectWhere(table, "id", id)

\* select(func.count()).select_from(models.User)
Count(table) == Len(table)

(***************************************************************************)
(* The unique index on users.email (Column(..., unique=True)).             *)
(***************************************************************************)
EmailUniqueDropped(table) == TRUE

EmailUnique(table) ==
    \A i, j \in 1..Len(table) : table[i].email = table[j].email => i = j

\* id is the autoincrement primary key: the next identifier of the table
NextId(table) == Len(table) + 1

(***************************************************************************)
(* The tables the store can hold at startup: at most MaxUsers rows, the    *)
(* identifiers assigned by autoincrement in insertion order (no row is     *)
(* ever deleted), the unique index on email respected.                     *)
(***************************************************************************)
RowFields == [email : Emails, full_name : FullNames, is_active : BOOLEAN]

TablesOfSize(n) ==
    {[i \in 1..n |-> [id |-> i, email |-> f[i].email, full_name |-> f[i].full_name,
                      is_active |-> f[i].is_active]] : f \in [1..n -> RowFields]}

Tables == {t \in UNION {TablesOfSize(n) : n \in 0..MaxUsers} : EmailUnique(t)}

(***************************************************************************)
(* Responses. An HTTPException is rendered by http_exception_handler, any   *)
(* other exception by general_exception_handler.                            *)
(***************************************************************************)
HttpError(code, detail) ==
    [status |-> code, content |-> [status |-> "error", code |-> code, message |-> detail]]

InternalError ==
    [status |-> 500,
     content |-> [status |-> "error", code |-> 500, message |-> "Internal Server Error"]]

Ok(content) == [status |-> 200, content |-> content]

\* response_model=schemas.User: UserInDBBase = UserBase + id
UserSchema(row) ==
    [id |-> row.id, email |-> row.email, full_name |-> row.full_name,
     is_active |-> row.is_active]

(***************************************************************************)
(* Password hashing (core/security.py): the hash is an opaque value that   *)
(* differs from the plaintext and verifies against exactly that plaintext. *)
(***************************************************************************)
get_password_hash(password) == <<"hash", password>>

verify_password(password, hashed) == hashed = <<"hash", password>>

(***************************************************************************)
(* Decimal strings: a string is its sequence of characters.  str(n) and    *)
(* int(s) for unsigned decimal literals; int(s) raises ValueError on any   *)
(* other character.                                                        *)
(***************************************************************************)
Digits == <<"0", "1", "2", "3", "4", "5", "6", "7", "8", "9">>

DigitValue(ch) == (CHOOSE i \in 1..10 : Digits[i] = ch) - 1

RECURSIVE StrOfInt(_)
StrOfInt(n) ==
    IF n < 10 THEN <<Digits[n + 1]>> ELSE StrOfInt(n \div 10) \o <<Digits[(n % 10) + 1]>>

IsIntLiteral(s) == Len(s) > 0 /\ \A i \in 1..Len(s) : \E d \in 1..10 : Digits[d] = s[i]

RECURSIVE IntOfStr(_)
IntOfStr(s) ==
    IF Len(s) = 1 THEN DigitValue(s[1])
    ELSE 10 * IntOfStr(SubSeq(s, 1, Len(s) - 1)) + DigitValue(s[Len(s)])

(***************************************************************************)
(* Tokens.  A token is its decoded reading: whether it parses as a JWT,    *)
(* whether its signature matches the server secret, whether its exp has    *)
(* passed, and its sub claim (Optional string).                            *)
(***************************************************************************)
Jwt(wellformed, signed, expired, sub) ==
    [wellformed |-> wellformed, signed |-> signed, expired |-> expired, sub |-> sub]

\* security.create_access_token(subject=user.id, expires_delta=...)
create_access_token(subject) == Jwt(TRUE, TRUE, FALSE, <<StrOfInt(subject)>>)

(***************************************************************************)
(* POST /users/ after the existence check (users.py 64-73).                *)
(* The constructor of models.User is the declarative one: a keyword that   *)
(* is no attribute of the mapped class raises TypeError.  commit() raises  *)
(* IntegrityError when the unique index on email rejects the row.          *)
(***************************************************************************)
CreateUserInsert(table, user_in) ==
    LET kwargs == [email |-> user_in.email,
                   full_name |-> user_in.full_name,
                   hashed_password |-> get_password_hash(user_in.password),
                   is_active |-> user_in.is_active]
    IN IF ~(DOMAIN kwargs \subseteq UserColumns)
       THEN [table |-> table, resp |-> InternalError]
       ELSE LET new_user == [id |-> NextId(table)] @@ kwargs
                added == Append(table, new_user)
            IN IF ~EmailUnique(added)
               THEN [table |-> table, resp |-> InternalError]
               ELSE [table |-> added, resp |-> Ok(UserSchema(new_user))]

(***************************************************************************)
(* POST /users/ from the existence check on (users.py 58-73).              *)
(***************************************************************************)
CreateUserOutcomeNoCheck(table, user_in, existing) == CreateUserInsert(table, user_in)

CreateUserOutcome(table, user_in, existing) ==
    IF existing # <<>>
    THEN [table |-> table,
          resp |-> HttpError(400, "The user with this username already exists in the system.")]
    ELSE CreateUserInsert(table, user_in)

(***************************************************************************)
(* POST /login/access-token after the user lookup (login.py 27-40).        *)
(* Reading user.hashed_password raises AttributeError when the mapped      *)
(* class has no such attribute.                                            *)
(***************************************************************************)
LoginOutcome(table, username, password) ==
    LET user == First(SelectByEmail(table, username))
    IN IF user = <<>>
       THEN HttpError(400, "Incorrect email or password")
       ELSE IF "hashed_password" \notin DOMAIN user[1]
       THEN InternalError
       ELSE IF ~verify_password(password, user[1].hashed_password)
       THEN HttpError(400, "Incorrect email or password")
       ELSE IF ~user[1].is_active
       THEN HttpError(400, "Inactive user")
       ELSE Ok([access_token |-> create_access_token(user[1].id), token_type |-> "bearer"])

(***************************************************************************)
(* The bearer tokens a client may present: not a JWT, a JWT signed with    *)
(* another key, an expired one, a valid one without a sub claim, and valid *)
(* ones whose sub is the identifier of a row, an identifier of no row, or  *)
(* no number at all.                                                       *)
(***************************************************************************)
Subjects == {StrOfInt(i) : i \in 1..(MaxUsers + 1)} \cup {<<"a">>}

Tokens ==
    {Jwt(FALSE, FALSE, FALSE, <<>>), Jwt(TRUE, FALSE, FALSE, <<StrOfInt(1)>>),
     Jwt(TRUE, TRUE, TRUE, <<StrOfInt(1)>>), Jwt(TRUE, TRUE, FALSE, <<>>)}
    \cup {Jwt(TRUE, TRUE, FALSE, <<s>>) : s \in Subjects}

\* the Authorization header is Optional
Headers == {<<>>} \cup {<<t>> : t \in Tokens}

\* the query parameters page and size: any integers, the defaults among them
Pages == (0..MaxPage) \cup {DefaultPage}
Sizes == {0, 1, 2, DefaultSize, MaxSize + 1}

(***************************************************************************)
(* jwt.decode(token, SECRET_KEY, algorithms=[ALGORITHM]) raises a JWTError *)
(* for a token that is no JWT, whose signature does not match, or whose    *)
(* exp has passed; otherwise it returns the claims.                        *)
(***************************************************************************)
JwtDecodeRaises(token) == ~token.wellformed \/ ~token.signed \/ token.expired

JwtDecode(token) == [sub |-> token.sub]

\* TokenPayload(**payload) raises ValidationError unless sub is a string
TokenPayloadRaises(payload) == payload.sub = <<>>

(***************************************************************************)
(* deps.get_current_user: [user |-> Optional row, resp |-> the response    *)
(* of the exception raised, read when user is None].                       *)
(***************************************************************************)
get_current_user(table, token) ==
    IF JwtDecodeRaises(token) \/ TokenPayloadRaises(JwtDecode(token))
    THEN [user |-> <<>>, resp |-> HttpError(403, "Could not validate credentials")]
    ELSE LET sub == JwtDecode(token).sub[1]
         IN IF ~IsIntLiteral(sub)
            THEN [user |-> <<>>, resp |-> InternalError]
            ELSE LET user == First(SelectById(table, IntOfStr(sub)))
                 IN IF user = <<>>
                    THEN [user |-> <<>>, resp |-> HttpError(404, "User not found")]
                    ELSE [user |-> user, resp |-> Ok(<<>>)]

(***************************************************************************)
(* deps.get_current_active_user over the result of get_current_user.       *)
(***************************************************************************)
get_current_active_user_unchecked(current) == current

get_current_active_user(current) ==
    IF current.user # <<>> /\ ~current.user[1].is_active
    THEN [user |-> <<>>, resp |-> HttpError(400, "Inactive user")]
    ELSE current

(***************************************************************************)
(* The dependencies of GET /users/: reusable_oauth2 answers 401 when the   *)
(* request carries no bearer token, then the two guards run.               *)
(***************************************************************************)
Authenticate(table, header) ==
    IF header = <<>>
    THEN [user |-> <<>>, resp |-> HttpError(401, "Not authenticated")]
    ELSE get_current_active_user(get_current_user(table, header[1]))

(***************************************************************************)
(* select(models.User).offset(skip).limit(size) names no ORDER BY: the     *)
(* store returns the rows in an order of its choosing.  Orders(table) are  *)
(* the orders it may choose.                                               *)
(***************************************************************************)
Orders(table) ==
    LET n == Len(table)
        perms == {p \in [1..n -> 1..n] : \A i, j \in 1..n : p[i] = p[j] => i = j}
    IN {[i \in 1..n |-> table[p[i]]] : p \in perms}

\* OFFSET skip LIMIT size over the rows in the order the store chose
OffsetLimit(rows, skip, size) == SubSeq(rows, skip + 1, Min(skip + size, Len(rows)))

(***************************************************************************)
(* read_users after the count (users.py 35-45): a negative OFFSET or LIMIT *)
(* is an error of the store (PostgreSQL, config.py DATABASE_URL), the page *)
(* count divides by size.                                                  *)
(***************************************************************************)
ReadUsersResult(rows, total, page, size) ==
    LET skip == (page - 1) * size
    IN IF skip < 0 \/ size < 0
       THEN InternalError
       ELSE IF size = 0
       THEN InternalError
       ELSE Ok([items |-> [i \in DOMAIN OffsetLimit(rows, skip, size) |->
                             UserSchema(OffsetLimit(rows, skip, size)[i])],
                total |-> total,
                page |-> page,
                size |-> size,
                pages |-> (total + size - 1) \div size])

Idle == [op |-> "none", pc |-> "idle"]

Init ==
    /\ users \in Tables
    /\ req = [c \in Clients |-> Idle]
    /\ lreq = Idle

(***************************************************************************)
(* POST /users/                                                            *)
(***************************************************************************)
SendCreateUser(c) ==
    /\ req[c].pc = "idle"
    /\ \E e \in Emails, p \in Passwords, n \in FullNames, a \in BOOLEAN :
          req' = [req EXCEPT ![c] =
                    [op |-> "create", pc |-> "lookup",
                     user_in |-> [email |-> e, password |-> p, full_name |-> n,
                                  is_active |-> a]]]
    /\ UNCHANGED <<users, lreq>>

\* users.py 56-57: the existence check reads the store
CreateUserLookup(c) ==
    /\ req[c].op = "create"
    /\ req[c].pc = "lookup"
    /\ req' = [req EXCEPT ![c] =
                 [op |-> "create", pc |-> "check", user_in |-> req[c].user_in,
                  existing |-> First(SelectByEmail(users, req[c].user_in.email))]]
    /\ UNCHANGED <<users, lreq>>

\* users.py 58-73
CreateUserFinish(c) ==
    /\ req[c].op = "create"
    /\ req[c].pc = "check"
    /\ LET out == CreateUserOutcome(users, req[c].user_in, req[c].existing)
       IN /\ users' = out.table
          /\ req' = [req EXCEPT ![c] =
                       [op |-> "create", pc |-> "done", user_in |-> req[c].user_in,
                        existing |-> req[c].existing, resp |-> out.resp]]
    /\ UNCHANGED lreq

(***************************************************************************)
(* POST /login/access-token                                                *)
(***************************************************************************)
SendLogin(c) ==
    /\ req[c].pc = "idle"
    /\ \E e \in Emails, p \in Passwords :
          req' = [req EXCEPT ![c] =
                    [op |-> "login", pc |-> "lookup", username |-> e, password |-> p]]
    /\ UNCHANGED <<users, lreq>>

LoginAccessToken(c) ==
    /\ req[c].op = "login"
    /\ req[c].pc = "lookup"
    /\ req' = [req EXCEPT ![c] =
                 [op |-> "login", pc |-> "done", username |-> req[c].username,
                  password |-> req[c].password,
                  found |-> First(SelectByEmail(users, req[c].username)),
                  resp |-> LoginOutcome(users, req[c].username, req[c].password)]]
    /\ UNCHANGED <<users, lreq>>

Next ==
    \E c \in Clients :
        \/ SendCreateUser(c)
        \/ CreateUserLookup(c)
        \/ CreateUserFinish(c)
        \/ SendLogin(c)
        \/ LoginAccessToken(c)

Spec == Init /\ [][Next]_vars

(***************************************************************************)
(* GET /users/                                                             *)
(***************************************************************************)
SendReadUsers ==
    /\ lreq.pc = "idle"
    /\ \E h \in Headers, pg \in Pages, sz \in Sizes :
          lreq' = [op |-> "list", pc |-> "auth", header |-> h, page |-> pg, size |-> sz]
    /\ UNCHANGED <<users, req>>

\* the dependencies: the guard reads the store once (deps.py 31-32)
ReadUsersAuth ==
    /\ lreq.pc = "auth"
    /\ LET auth == Authenticate(users, lreq.header)
       IN lreq' = IF auth.user = <<>>
                  THEN [lreq EXCEPT !.pc = "done"] @@ [handler_reads |-> 0, resp |-> auth.resp]
                  ELSE [lreq EXCEPT !.pc = "count"] @@ [current_user |-> auth.user]
    /\ UNCHANGED <<users, req>>

\* users.py 30-32
ReadUsersCount ==
    /\ lreq.pc = "count"
    /\ lreq' = [lreq EXCEPT !.pc = "fetch"] @@ [total |-> Count(users)]
    /\ UNCHANGED <<users, req>>

\* users.py 35-45
ReadUsersFetch ==
    /\ lreq.pc = "fetch"
    /\ \E rows \in Orders(users) :
          lreq' = [lreq EXCEPT !.pc = "done"]
                    @@ [handler_reads |-> 2,
                        resp |-> ReadUsersResult(rows, lreq.total, lreq.page, lreq.size)]
    /\ UNCHANGED <<users, req>>

NextListing ==
    \/ SendReadUsers
    \/ ReadUsersAuth
    \/ ReadUsersCount
    \/ ReadUsersFetch

SpecListing == Init /\ [][NextListing]_vars

(***************************************************************************)
(* Properties.                                                             *)
(***************************************************************************)
DoneCreate(c) == req[c].op = "create" /\ req[c].pc = "done"
DoneLogin(c) == req[c].op = "login" /\ req[c].pc = "done"
DoneList == lreq.op = "list" /\ lreq.pc = "done"

\* a stored row's hash verifies the password (a row without a hash verifies none)
Verifies(password, row) ==
    "hashed_password" \in DOMAIN row /\ verify_password(password, row.hashed_password)

\* ceil(n / size) for size >= 1
Ceil(n, size) == CHOOSE k \in 0..n : k * size >= n /\ (k - 1) * size < n

\* C1: registering an email that is not stored (and that no concurrent request
\* registers) answers 200 with the created user and neither the password nor
\* its hash, the stored hash verifies the submitted password, and a login with
\* the same email and password answers 200 with an access_token and
\* token_type "bearer".
C1_RegisterThenLogin ==
    /\ \A c \in Clients :
          (/\ DoneCreate(c)
           /\ req[c].existing = <<>>
           /\ \A d \in Clients \ {c} :
                 req[d].op = "create" => req[d].user_in.email # req[c].user_in.email)
          => /\ req[c].resp.status = 200
             /\ DOMAIN req[c].resp.content = {"id", "email", "full_name", "is_active"}
             /\ req[c].resp.content.email = req[c].user_in.email
             /\ \E i \in 1..Len(users) :
                   /\ users[i].email = req[c].user_in.email
                   /\ Verifies(req[c].user_in.password, users[i])
    /\ \A c, d \in Clients :
          (/\ DoneCreate(c) /\ req[c].resp.status = 200
           /\ DoneLogin(d) /\ req[d].found # <<>>
           /\ req[d].username = req[c].user_in.email
           /\ req[d].password = req[c].user_in.password)
          => /\ req[d].resp.status = 200
             /\ "access_token" \in DOMAIN req[d].resp.content
             /\ req[d].resp.content.token_type = "bearer"

\* C2: a create-user request whose email is already stored ends with the
\* duplicate-email error (400) and leaves the store exactly as it was.
C2_DuplicateEmailRejected ==
    [][\A c \in Clients :
          (req[c].pc = "check" /\ req[c].existing # <<>> /\ req'[c].pc = "done")
          => /\ req'[c].resp =
                  HttpError(400, "The user with this username already exists in the system.")
             /\ users' = users]_vars

C2_Witness ==
    \E c \in Clients :
        DoneCreate(c) /\ req[c].existing # <<>> /\ req[c].resp.status = 400

\* C3: login issues a token iff the email is stored, the password verifies
\* against the stored hash and the user is active, and the token's subject is
\* the user's identifier; a wrong password fails with InvalidCredentials and
\* an inactive user with the correct password with InactiveUser.
C3_LoginIssuesTokenIff ==
    \A c \in Clients :
        DoneLogin(c) =>
            LET u == req[c].found
                r == req[c].resp
                good == u # <<>> /\ Verifies(req[c].password, u[1])
            IN /\ (r.status = 200) <=> (good /\ u[1].is_active)
               /\ r.status = 200 =>
                     r.content.access_token.sub = <<StrOfInt(u[1].id)>>
               /\ (u # <<>> /\ ~good) => r = HttpError(400, "Incorrect email or password")
               /\ (good /\ ~u[1].is_active) => r = HttpError(400, "Inactive user")

\* C4: every failed login gets the same generic 400 response, whatever the
\* cause (no such user, wrong password, inactive user).
C4_FailedLoginGeneric ==
    \A c, d \in Clients :
        (DoneLogin(c) /\ DoneLogin(d) /\ req[c].resp.status # 200 /\ req[d].resp.status # 200)
        => req[c].resp.status = 400 /\ req[c].resp = req[d].resp

\* C5: a token that is malformed, wrongly signed, expired or without a usable
\* subject identifier gets the single 403 "Could not validate credentials".
C5_TokenFailuresAre403 ==
    (DoneList /\ lreq.header # <<>>) =>
        LET t == lreq.header[1]
            unusable == \/ ~t.wellformed \/ ~t.signed \/ t.expired
                        \/ t.sub = <<>> \/ ~IsIntLiteral(t.sub[1])
        IN unusable => lreq.resp = HttpError(403, "Could not validate credentials")

\* C6: GET /users/ answers 200 only to a validly signed, unexpired token whose
\* subject is the identifier of a stored active user; no token is rejected, a
\* valid token of no stored user gets 404, of an inactive user 400, and a
\* rejected request gets no listing.
C6_ListingProtected ==
    DoneList =>
        LET h == lreq.header
            r == lreq.resp
            valid == /\ h # <<>>
                     /\ h[1].wellformed /\ h[1].signed /\ ~h[1].expired
                     /\ h[1].sub # <<>>
            ids == IF valid
                   THEN {i \in 1..Len(users) : StrOfInt(users[i].id) = h[1].sub[1]}
                   ELSE {}
        IN /\ r.status = 200 => \E i \in ids : users[i].is_active
           /\ h = <<>> => r.status \in {401, 403}
           /\ (valid /\ IsIntLiteral(h[1].sub[1]) /\ ids = {})
                 => r = HttpError(404, "User not found")
           /\ (\E i \in ids : ~users[i].is_active) => r = HttpError(400, "Inactive user")
           /\ r.status # 200 => "items" \notin DOMAIN r.content

C6_Witness ==
    /\ DoneList
    /\ lreq.resp.status = 200
    /\ Len(lreq.resp.content.items) > 0
    /\ \E i \in 1..Len(users) : ~users[i].is_active

\* C7: an authenticated listing request with page < 1, size < 1 or
\* size > 100 is rejected as a validation error (422) before any store read.
C7_ParamsValidated ==
    (/\ DoneList
     /\ "current_user" \in DOMAIN lreq
     /\ (lreq.page < 1 \/ lreq.size < 1 \/ lreq.size > MaxSize))
    => lreq.resp.status = 422 /\ lreq.handler_reads = 0

\* C8: for page >= 1 and size in 1..100 the listing of a store of n users has
\* total = n, pages = ceil(n/size) and as items the users at positions
\* (page-1)*size .. (page-1)*size+size-1 of the identifier-ascending order.
C8_PageContents ==
    (/\ DoneList
     /\ "current_user" \in DOMAIN lreq
     /\ lreq.page >= 1 /\ lreq.size \in 1..MaxSize)
    => LET n == Len(users)
           skip == (lreq.page - 1) * lreq.size
           c == lreq.resp.content
       IN /\ lreq.resp.status = 200
          /\ c.total = n
          /\ c.pages = Ceil(n, lreq.size)
          /\ Len(c.items) = IF skip >= n THEN 0 ELSE Min(lreq.size, n - skip)
          /\ \A i \in 1..Len(c.items) : c.items[i].id = skip + i

====
